---- MODULE Spec2Model ----
(***************************************************************************)
(* Model of app.py, the Streamlit food nutrition analyzer.                 *)
(*                                                                         *)
(* Streamlit runs main() from top to bottom once when the session opens    *)
(* and once more after every widget interaction.  The state that survives  *)
(* between runs is the widget values (selectbox, file_uploader, text_area) *)
(* and st.session_state.  The only point where a run waits for its         *)
(* environment is the blocking model.generate_content call, so a run that  *)
(* analyses is two steps: the run up to the call, and the rest of the run  *)
(* once the call has returned or raised.  Nothing else happens in between. *)
(*                                                                         *)
(* Strings are sequences of tokens; a token is an atomic, non-empty chunk  *)
(* of characters.  f-string formatting and += are concatenation.           *)
(* Uploaded files are decodable images (Image.open and st.image succeed).  *)
(***************************************************************************)
EXTENDS Naturals, Sequences, FiniteSets, TLC

VARIABLES
    apiKey,         \* os.getenv("GOOGLE_API_KEY"): {} when unset, else {key}
    goal,           \* value of the "Health Goal" selectbox
    notes,          \* value of the "Additional Notes" text_area
    uploaded_file,  \* value of the file_uploader: NoFile or a file
    session_state,  \* st.session_state: a function whose domain is its keys
    pc,             \* "idle", or "calling" while generate_content blocks
    request,        \* {} or {the argument of the generate_content in flight}
    page,           \* what the latest script run has put on the page
    calls,          \* history: number of generate_content calls made
    clicks,         \* history: number of clicks on the Analyze button
    lastAction,     \* history: the interaction that started the latest run
    lastOutcome,    \* history: {} or {outcome of the latest transport call}
    lastReturn,     \* history: {} or {completion of the latest analyze_food_image}
    prevReturn      \* history: {} or {completion of the one before the latest}

vars == <<apiKey, goal, notes, uploaded_file, session_state, pc, request,
          page, calls, clicks, lastAction, lastOutcome, lastReturn, prevReturn>>

----------------------------------------------------------------------------
(* Bounds and input alphabets *)

MaxNotesLen == 2
MaxClicks == 2

\* Chunks a user can type into the notes box: ordinary text, white space,
\* and the very sentence the program uses as its placeholder.
NoteWords == {"leftover pizza", " ", "No additional notes provided."}

RECURSIVE SeqsUpTo(_, _)
SeqsUpTo(S, n) ==
    IF n = 0 THEN {<<>>}
    ELSE LET shorter == SeqsUpTo(S, n - 1)
         IN  shorter \cup {Append(s, w) : s \in {t \in shorter : Len(t) = n - 1}, w \in S}

NotesInputs == SeqsUpTo(NoteWords, MaxNotesLen)

NoFile == "None"
Files == {"photo1.jpg", "photo2.png"}
Keys == {"key"}

\* Texts the remote model can answer with, and messages its errors can carry.
ReplyTexts == {<<>>, <<" ", "- Items Detected:", "\n">>}
ErrorMessages == {<<"API key not valid">>, <<>>}

----------------------------------------------------------------------------
(* String helpers *)

\* Python's `sub in s` on strings: sub occurs as a contiguous run of s.
Contains(s, sub) ==
    \E i \in 0..(Len(s) - Len(sub)) :
        \A j \in 1..Len(sub) : s[i + j] = sub[j]

\* Python's truth value of a str: non-empty.
Truthy(s) == Len(s) > 0

----------------------------------------------------------------------------
(* Program constants *)

SYSTEM_PROMPT ==
    <<"You are a certified nutrition analyst.", "Your tasks:",
      "Formatting (use exactly this structure):",
      "- Items Detected:", "- Assumptions & Uncertainty:",
      "- Total Estimated Calories:", "- Notes & Tips:",
      "Constraints & Behavior:">>

Goals == {"General Info", "Weight Loss", "Muscle Gain", "Maintenance"}

Placeholder == <<"No additional notes provided.">>

----------------------------------------------------------------------------
(* Completions of a Python call: it returns a value or raises an exception *)

Return(v) == [kind |-> "return", value |-> v]
Raise(e) == [kind |-> "raise", exc |-> e]

\* str(e) of an exception
str(e) == e.msg

----------------------------------------------------------------------------
(* The remote service, seen from analyze_food_image *)

Exceptions == {[cls |-> "Exception", msg |-> m] : m \in ErrorMessages}

\* What model.generate_content([full_prompt, image]) followed by response.text
\* can do: the call raises, the call returns and reading .text raises, or the
\* text is read.  The service answers nothing but errors to a client that was
\* configured without an API key.
TransportOutcomes(model) ==
    {[kind |-> "call_raises", exc |-> e] : e \in Exceptions}
    \cup {[kind |-> "text_raises", exc |-> e] : e \in Exceptions}
    \cup (IF model.api_key = {} THEN {}
          ELSE {[kind |-> "text", text |-> t] : t \in ReplyTexts})

----------------------------------------------------------------------------
(* initialize_gemini *)

initialize_gemini_validating(key) ==
    IF key = {}
    THEN Raise([cls |-> "Exception", msg |-> <<"GOOGLE_API_KEY is not set">>])
    ELSE Return([api_key |-> key, model_name |-> "gemini-2.5-pro"])

\* genai.configure(api_key=os.getenv(...)) and the GenerativeModel constructor
\* accept a missing key.
initialize_gemini(key) ==
    Return([api_key |-> key, model_name |-> "gemini-2.5-pro"])

----------------------------------------------------------------------------
(* analyze_food_image *)

user_message_always_placeholder(user_notes) == Placeholder

user_message_is_not_none(user_notes) == <<"User notes: ">> \o user_notes

user_message(user_notes) ==
    IF Truthy(user_notes) THEN <<"User notes: ">> \o user_notes
    ELSE Placeholder

full_prompt(user_notes) ==
    SYSTEM_PROMPT \o <<"\n\n">> \o user_message(user_notes)

\* The argument list of model.generate_content.
generate_content_args(user_notes, image) ==
    [prompt |-> full_prompt(user_notes), image |-> image]

IsSpace(w) == w \in {" ", "\n"}

RECURSIVE lstrip(_)
lstrip(s) ==
    IF s # <<>> /\ IsSpace(Head(s)) THEN lstrip(Tail(s)) ELSE s

RECURSIVE rstrip(_)
rstrip(s) ==
    IF s # <<>> /\ IsSpace(s[Len(s)]) THEN rstrip(SubSeq(s, 1, Len(s) - 1)) ELSE s

strip(s) == lstrip(rstrip(s))

analyze_try_stripping(outcome) ==
    IF outcome.kind = "text"
    THEN Return([success |-> TRUE, analysis |-> strip(outcome.text)])
    ELSE Raise(outcome.exc)

\* The body of the try block from the generate_content call on.
analyze_try(outcome) ==
    IF outcome.kind = "text"
    THEN Return([success |-> TRUE, analysis |-> outcome.text])
    ELSE Raise(outcome.exc)

analyze_food_image_no_except(outcome) == analyze_try(outcome)

\* try ... except Exception as e: every exception of the try block is turned
\* into the failure dict.
analyze_food_image(outcome) ==
    LET c == analyze_try(outcome)
    IN  IF c.kind = "raise"
        THEN Return([success |-> FALSE, error |-> str(c.exc)])
        ELSE c

----------------------------------------------------------------------------
(* main: the notes handed to analyze_food_image *)

EffectiveNotes_always_suffix(user_notes, g) ==
    IF Truthy(user_notes) THEN user_notes \o <<" | Goal: ", g>>
    ELSE <<"Goal: ", g>>

\* "Add goal to notes if specified": the value of user_notes after the
\* if goal != "General Info" block.
EffectiveNotes(user_notes, g) ==
    IF g # "General Info"
    THEN IF Truthy(user_notes) THEN user_notes \o <<" | Goal: ", g>>
         ELSE <<"Goal: ", g>>
    ELSE user_notes

ShouldAnalyze_every_run(f, clicked) == f # NoFile

\* if uploaded_file is not None: ... if st.button(...):
ShouldAnalyze(f, clicked) == f # NoFile /\ clicked

StoreResult_setdefault(session, result) ==
    IF "result" \in DOMAIN session THEN session
    ELSE [k \in {"result"} |-> result]

\* st.session_state['result'] = result
StoreResult(session, result) ==
    [k \in DOMAIN session \cup {"result"} |->
        IF k = "result" THEN result ELSE session[k]]

----------------------------------------------------------------------------
(* main: what a run puts on the page *)

\* The left column: uploader and notes box always; the image and the Analyze
\* button when a file is uploaded, the "Upload an image" hint otherwise; the
\* spinner while analyze_food_image runs.
Col1(f, spinning) ==
    [uploader    |-> TRUE,
     image       |-> IF f # NoFile THEN {f} ELSE {},
     button      |-> f # NoFile,
     upload_info |-> f = NoFile,
     spinner     |-> spinning]

NotRenderedCol1 ==
    [uploader |-> FALSE, image |-> {}, button |-> FALSE,
     upload_info |-> FALSE, spinner |-> FALSE]

NotRenderedCol2 ==
    [success_banner |-> FALSE, markdown |-> {}, download |-> {},
     error |-> {}, retry_info |-> FALSE, empty_info |-> FALSE]

Col2_download_always(session) ==
    IF "result" \in DOMAIN session
    THEN LET result == session["result"]
             shown == IF result.success THEN result.analysis ELSE result.error
         IN  [success_banner |-> result.success,
              markdown       |-> IF result.success THEN {shown} ELSE {},
              download       |-> {[data |-> shown,
                                   file_name |-> "nutrition_analysis.txt",
                                   mime |-> "text/plain"]},
              error          |-> IF result.success THEN {}
                                 ELSE {<<"Analysis failed: ">> \o shown},
              retry_info     |-> ~result.success,
              empty_info     |-> FALSE]
    ELSE [NotRenderedCol2 EXCEPT !.empty_info = TRUE]

\* The right column, "Display results".
Col2(session) ==
    IF "result" \in DOMAIN session
    THEN LET result == session["result"]
         IN  IF result.success
             THEN [success_banner |-> TRUE,
                   markdown       |-> {result.analysis},
                   download       |-> {[data |-> result.analysis,
                                        file_name |-> "nutrition_analysis.txt",
                                        mime |-> "text/plain"]},
                   error          |-> {},
                   retry_info     |-> FALSE,
                   empty_info     |-> FALSE]
             ELSE [success_banner |-> FALSE,
                   markdown       |-> {},
                   download       |-> {},
                   error          |-> {<<"Analysis failed: ">> \o result.error},
                   retry_info     |-> TRUE,
                   empty_info     |-> FALSE]
    ELSE [success_banner |-> FALSE,
          markdown       |-> {},
          download       |-> {},
          error          |-> {},
          retry_info     |-> FALSE,
          empty_info     |-> TRUE]

\* A run that an uncaught exception ends: Streamlit shows the exception and
\* nothing of what the run had not reached.
Aborted(col1, e) ==
    [col1 |-> col1, col2 |-> NotRenderedCol2, exception |-> {e}]

\* One run of main() up to the point where it blocks or ends.  key, g, n, f
\* and clicked are the environment and widget values the run reads, session
\* is st.session_state and shown is the page the previous run left.
main(key, g, n, f, clicked, session, shown) ==
    LET init == initialize_gemini(key)
    IN  IF init.kind = "raise"
        THEN [pc |-> "idle", request |-> {}, session |-> session,
              page |-> Aborted(NotRenderedCol1, init.exc)]
        ELSE LET user_notes == EffectiveNotes(n, g)
             IN  IF ShouldAnalyze(f, clicked)
                 THEN [pc      |-> "calling",
                       request |-> {[model      |-> init.value,
                                     user_notes |-> user_notes,
                                     args       |-> generate_content_args(user_notes, f)]},
                       session |-> session,
                       page    |-> [col1 |-> Col1(f, TRUE),
                                    col2 |-> shown.col2,
                                    exception |-> {}]]
                 ELSE [pc      |-> "idle",
                       request |-> {},
                       session |-> session,
                       page    |-> [col1 |-> Col1(f, FALSE),
                                    col2 |-> Col2(session),
                                    exception |-> {}]]

\* The rest of a run once generate_content has completed with outcome o:
\* analyze_food_image returns, its result is stored, the right column is drawn.
main_resume(o, f, session, shown) ==
    LET c == analyze_food_image(o)
    IN  IF c.kind = "raise"
        THEN [completion |-> c, session |-> session,
              page |-> Aborted([shown.col1 EXCEPT !.spinner = FALSE], c.exc)]
        ELSE LET stored == StoreResult(session, c.value)
             IN  [completion |-> c, session |-> stored,
                  page |-> [col1 |-> Col1(f, FALSE),
                            col2 |-> Col2(stored),
                            exception |-> {}]]

----------------------------------------------------------------------------
(* The state machine *)

EmptySession == [k \in {} |-> {}]

BlankPage == [col1 |-> NotRenderedCol1, col2 |-> NotRenderedCol2, exception |-> {}]

\* The session opens: every widget has its default value and main() has run once.
Init ==
    /\ apiKey \in {{}} \cup {{k} : k \in Keys}
    /\ goal = "General Info"
    /\ notes = <<>>
    /\ uploaded_file = NoFile
    /\ session_state = EmptySession
    /\ pc = "idle"
    /\ request = {}
    /\ page = main(apiKey, "General Info", <<>>, NoFile, FALSE, EmptySession, BlankPage).page
    /\ calls = 0
    /\ clicks = 0
    /\ lastAction = "open"
    /\ lastOutcome = {}
    /\ lastReturn = {}
    /\ prevReturn = {}

\* A widget interaction: the widgets take the values g, n, f and main() runs.
Rerun(g, n, f, clicked, interaction) ==
    LET r == main(apiKey, g, n, f, clicked, session_state, page)
    IN  /\ goal' = g
        /\ notes' = n
        /\ uploaded_file' = f
        /\ pc' = r.pc
        /\ request' = r.request
        /\ session_state' = r.session
        /\ page' = r.page
        /\ calls' = IF r.pc = "calling" THEN calls + 1 ELSE calls
        /\ lastAction' = interaction
        /\ UNCHANGED <<apiKey, lastOutcome, lastReturn, prevReturn>>

UploadFile(f) ==
    /\ pc = "idle"
    /\ page.col1.uploader
    /\ f # uploaded_file
    /\ Rerun(goal, notes, f, FALSE, "upload")
    /\ UNCHANGED clicks

RemoveFile ==
    /\ pc = "idle"
    /\ page.col1.uploader
    /\ uploaded_file # NoFile
    /\ Rerun(goal, notes, NoFile, FALSE, "remove")
    /\ UNCHANGED clicks

EditNotes(n) ==
    /\ pc = "idle"
    /\ page.col1.uploader
    /\ n # notes
    /\ Rerun(goal, n, uploaded_file, FALSE, "notes")
    /\ UNCHANGED clicks

SelectGoal(g) ==
    /\ pc = "idle"
    /\ g # goal
    /\ Rerun(g, notes, uploaded_file, FALSE, "goal")
    /\ UNCHANGED clicks

ClickAnalyze ==
    /\ pc = "idle"
    /\ page.col1.button
    /\ clicks < MaxClicks
    /\ clicks' = clicks + 1
    /\ Rerun(goal, notes, uploaded_file, TRUE, "click")

\* generate_content returns or raises and the run goes on to its end.
GenerateContentCompletes ==
    /\ pc = "calling"
    /\ \E rq \in request : \E o \in TransportOutcomes(rq.model) :
         LET r == main_resume(o, uploaded_file, session_state, page)
         IN  /\ lastOutcome' = {o}
             /\ lastReturn' = {r.completion}
             /\ prevReturn' = lastReturn
             /\ session_state' = r.session
             /\ page' = r.page
    /\ pc' = "idle"
    /\ request' = {}
    /\ UNCHANGED <<apiKey, goal, notes, uploaded_file, calls, clicks, lastAction>>

Next ==
    \/ \E f \in Files : UploadFile(f)
    \/ RemoveFile
    \/ \E n \in NotesInputs : EditNotes(n)
    \/ \E g \in Goals : SelectGoal(g)
    \/ ClickAnalyze
    \/ GenerateContentCompletes

Spec == Init /\ [][Next]_vars

----------------------------------------------------------------------------
(* Properties *)

Failure(m) == [success |-> FALSE, error |-> m]
Success(t) == [success |-> TRUE, analysis |-> t]

HasResult == "result" \in DOMAIN session_state

\* C1: when the transport call, or reading the response's text, raises an
\* error, analyze_food_image returns the failure dict whose message is the
\* error's string, and nothing is raised into main.
C1_ErrorBecomesFailure ==
    \A o \in lastOutcome :
        o.kind \in {"call_raises", "text_raises"} =>
            /\ lastReturn = {[kind |-> "return", value |-> Failure(o.exc.msg)]}
            /\ page.exception = {}

C1_Witness ==
    /\ pc = "idle"
    /\ \E o \in lastOutcome :
         /\ o.kind = "text_raises"
         /\ o.exc.msg = <<"API key not valid">>
         /\ lastReturn = {[kind |-> "return", value |-> Failure(<<"API key not valid">>)]}

\* C2: when the transport call returns text T, analyze_food_image returns the
\* success dict carrying exactly T, white space and the empty text included.
C2_TextReturnedVerbatim ==
    \A o \in lastOutcome :
        o.kind = "text" =>
            lastReturn = {[kind |-> "return", value |-> Success(o.text)]}

C2_Witness ==
    /\ lastOutcome = {[kind |-> "text", text |-> <<" ", "- Items Detected:", "\n">>]}
    /\ lastReturn = {[kind |-> "return",
                      value |-> Success(<<" ", "- Items Detected:", "\n">>)]}
    /\ prevReturn = {[kind |-> "return", value |-> Success(<<>>)]}

\* C3: when analyze_food_image is given no notes, the instruction text of the
\* transport call contains "No additional notes provided."
C3_AbsentNotesGivePlaceholder ==
    \A rq \in request :
        rq.user_notes = <<>> =>
            Contains(rq.args.prompt, <<"No additional notes provided.">>)

C3_Witness ==
    /\ pc = "calling"
    /\ notes = <<>>
    /\ goal = "General Info"
    /\ \E rq \in request :
         /\ rq.user_notes = <<>>
         /\ rq.args.image \in Files
         /\ rq.args.prompt = SYSTEM_PROMPT \o <<"\n\n", "No additional notes provided.">>

\* C4 as stated: for non-empty notes the instruction text is the template
\* followed by "User notes: {notes}" and does not contain the placeholder
\* sentence.
C4_AsStated ==
    \A rq \in request :
        rq.user_notes # <<>> =>
            /\ rq.args.prompt = SYSTEM_PROMPT \o <<"\n\n", "User notes: ">> \o rq.user_notes
            /\ ~Contains(rq.args.prompt, <<"No additional notes provided.">>)

\* C4 amended: for non-empty notes the instruction text is the template, a
\* blank line and "User notes: {notes}" with the notes verbatim; the
\* placeholder sentence does not take the place of the notes, and occurs in
\* the instruction text exactly when the notes themselves contain it.
C4_NotesVerbatim ==
    \A rq \in request :
        rq.user_notes # <<>> =>
            /\ rq.args.prompt = SYSTEM_PROMPT \o <<"\n\n", "User notes: ">> \o rq.user_notes
            /\ rq.args.prompt # SYSTEM_PROMPT \o <<"\n\n", "No additional notes provided.">>
            /\ Contains(rq.args.prompt, <<"No additional notes provided.">>)
                   <=> Contains(rq.user_notes, <<"No additional notes provided.">>)

C4_Witness ==
    \E rq \in request :
        /\ rq.user_notes = <<" ", "leftover pizza">>
        /\ rq.args.prompt = SYSTEM_PROMPT \o <<"\n\n", "User notes: ", " ", "leftover pizza">>

\* C5: the notes handed to analyze_food_image are the typed notes when the
\* goal is General Info; otherwise the typed notes followed by
\* " | Goal: {goal}" when they are non-empty and "Goal: {goal}" when empty.
C5_GoalSuffix ==
    \A rq \in request :
        /\ goal = "General Info" => rq.user_notes = notes
        /\ goal # "General Info" /\ notes # <<>> =>
               rq.user_notes = notes \o <<" | Goal: ", goal>>
        /\ goal # "General Info" /\ notes = <<>> =>
               rq.user_notes = <<"Goal: ", goal>>
        /\ notes = <<"leftover pizza">> /\ goal = "Weight Loss" =>
               Contains(rq.args.prompt,
                        <<"User notes: ", "leftover pizza", " | Goal: ", "Weight Loss">>)

C5_Witness ==
    /\ notes = <<"leftover pizza">>
    /\ goal = "Weight Loss"
    /\ \E rq \in request :
         rq.user_notes = <<"leftover pizza", " | Goal: ", "Weight Loss">>

\* C6: the number of transport calls equals the number of Analyze clicks, at
\* most one call is in flight, and each call that has completed has produced
\* one completion of analyze_food_image.
C6_OneCallPerClick ==
    /\ calls = clicks
    /\ Cardinality(request) = (IF pc = "calling" THEN 1 ELSE 0)
    /\ pc = "idle" => Cardinality(lastReturn) = (IF calls > 0 THEN 1 ELSE 0)
    /\ pc = "idle" => Cardinality(prevReturn) = (IF calls > 1 THEN 1 ELSE 0)

C6_Witness ==
    /\ pc = "idle"
    /\ clicks = 2
    /\ calls = 2
    /\ lastAction = "goal"
    /\ \E o \in lastOutcome : o.kind = "call_raises"
    /\ \E c \in prevReturn : c.value.success

\* C7: the session holds at most the one key "result", and what it holds is
\* the result of the most recent completed analysis.
C7_LatestResultOnly ==
    /\ DOMAIN session_state \subseteq {"result"}
    /\ HasResult <=> lastReturn # {}
    /\ \A c \in lastReturn :
         c.kind = "return" /\ session_state = [k \in {"result"} |-> c.value]

C7_Witness ==
    /\ pc = "idle"
    /\ prevReturn = {[kind |-> "return", value |-> Success(<<" ", "- Items Detected:", "\n">>)]}
    /\ lastReturn = {[kind |-> "return", value |-> Failure(<<"API key not valid">>)]}
    /\ session_state = [k \in {"result"} |-> Failure(<<"API key not valid">>)]

\* C8: with no API key configured every run renders the form and ends without
\* an exception, no error is shown before an analysis is made, and every
\* analysis returns a failure.
C8_MissingKeySurfacesAtCall ==
    apiKey = {} =>
        /\ page.exception = {}
        /\ page.col1.uploader
        /\ (calls = 0 => page.col2.error = {} /\ ~HasResult)
        /\ \A c \in lastReturn : c.kind = "return" /\ ~c.value.success
        /\ HasResult => ~session_state["result"].success

C8_Witness ==
    /\ apiKey = {}
    /\ pc = "idle"
    /\ HasResult
    /\ session_state["result"] = Failure(<<"API key not valid">>)
    /\ page.col2.error = {<<"Analysis failed: ", "API key not valid">>}

C10_ResultChangesOnlyOnAnalyze ==
    [][session_state' # session_state =>
          lastAction = "click" /\ uploaded_file # NoFile]_vars

C10_Witness ==
    /\ HasResult
    /\ session_state["result"].success
    /\ uploaded_file = NoFile
    /\ lastAction = "remove"
    /\ page.col2.markdown # {}

====
